---- MODULE Spec2Model ----
(***************************************************************************)
(* Model of vizia_scope (src/src/lib.rs): the ScopeView widget, its event  *)
(* handler, and its draw pass (grid, constant / signal / audio lines,      *)
(* border).                                                                *)
(*                                                                         *)
(* f32 values are modelled as exact rationals [n, d] in lowest terms, so   *)
(* coordinates are compared up to f32 rounding.  A panic (slice::chunks    *)
(* with chunk size 0, Option::expect on None, integer overflow in a build  *)
(* with overflow checks) ends the draw and the program.  Integer overflow  *)
(* is build dependent: overflow_checks is TRUE for a build that panics on  *)
(* overflow (debug) and FALSE for one that wraps (release).                *)
(***************************************************************************)
EXTENDS Integers, Sequences, FiniteSets, TLC

VARIABLES pc, overflow_checks, config, scope_data, events, frame

vars == <<pc, overflow_checks, config, scope_data, events, frame>>

-----------------------------------------------------------------------------
(* Bounds of the model *)

MaxLen == 3

MaxLines == 2

MaxWidth == 3

MaxDivs == 2

MaxEvents == 2

-----------------------------------------------------------------------------
(* f32 arithmetic, as exact rationals *)

Abs(i) == IF i < 0 THEN -i ELSE i

RECURSIVE GCD(_, _)
GCD(a, b) == IF b = 0 THEN a ELSE GCD(b, a % b)

Rat(n, d) ==
  LET g == GCD(Abs(n), Abs(d))
      s == IF d < 0 THEN -1 ELSE 1
  IN [n |-> (s * n) \div g, d |-> (s * d) \div g]

FromInt(i) == [n |-> i, d |-> 1]

Zero == FromInt(0)

One == FromInt(1)

Two == FromInt(2)

Four == FromInt(4)

Half == Rat(1, 2)

\* A sum, difference or product of integers needs no reduction.
Add(a, b) ==
  IF a.d = 1 /\ b.d = 1 THEN [n |-> a.n + b.n, d |-> 1]
  ELSE Rat(a.n * b.d + b.n * a.d, a.d * b.d)

Sub(a, b) ==
  IF a.d = 1 /\ b.d = 1 THEN [n |-> a.n - b.n, d |-> 1]
  ELSE Rat(a.n * b.d - b.n * a.d, a.d * b.d)

Mul(a, b) ==
  IF a.d = 1 /\ b.d = 1 THEN [n |-> a.n * b.n, d |-> 1]
  ELSE Rat(a.n * b.n, a.d * b.d)

Div(a, b) == Rat(a.n * b.d, a.d * b.n)

Lt(a, b) == a.n * b.d < b.n * a.d

Le(a, b) == a.n * b.d <= b.n * a.d

FMin(a, b) == IF Lt(b, a) THEN b ELSE a

FMax(a, b) == IF Lt(a, b) THEN b ELSE a

Clamp(v, lo, hi) == IF Lt(v, lo) THEN lo ELSE IF Lt(hi, v) THEN hi ELSE v

\* `as usize` / `as u32` of a float: truncation toward zero, saturating at 0
\* for negative values.
AsUnsigned(v) == IF v.n < 0 THEN 0 ELSE v.n \div v.d

\* bucket.iter().sum() and the min / max fold of draw_audio.  The buffer is
\* split in halves to bound the depth of the recursion; in exact arithmetic
\* the result is that of the left-to-right fold.
RECURSIVE Sum(_)
Sum(s) ==
  IF Len(s) = 0 THEN Zero
  ELSE IF Len(s) = 1 THEN s[1]
  ELSE Add(Sum(SubSeq(s, 1, Len(s) \div 2)), Sum(SubSeq(s, Len(s) \div 2 + 1, Len(s))))

RECURSIVE FoldMin(_)
FoldMin(s) ==
  IF Len(s) = 1 THEN s[1]
  ELSE FMin(FoldMin(SubSeq(s, 1, Len(s) \div 2)), FoldMin(SubSeq(s, Len(s) \div 2 + 1, Len(s))))

RECURSIVE FoldMax(_)
FoldMax(s) ==
  IF Len(s) = 1 THEN s[1]
  ELSE FMax(FoldMax(SubSeq(s, 1, Len(s) \div 2)), FoldMax(SubSeq(s, Len(s) \div 2 + 1, Len(s))))

SetMin(S) == CHOOSE m \in S : \A k \in S : m <= k

-----------------------------------------------------------------------------
(* u32 values, as two 16-bit limbs (4294967295 does not fit a model integer) *)

Limb == 65536

U32(i) == [hi |-> i \div Limb, lo |-> i % Limb]

U32Max == [hi |-> Limb - 1, lo |-> Limb - 1]

\* x + 1 in u32: the wrapped value and whether the addition overflowed.
U32Succ(x) ==
  IF x.lo + 1 < Limb THEN [overflow |-> FALSE, val |-> [hi |-> x.hi, lo |-> x.lo + 1]]
  ELSE IF x.hi + 1 < Limb THEN [overflow |-> FALSE, val |-> [hi |-> x.hi + 1, lo |-> 0]]
  ELSE [overflow |-> TRUE, val |-> [hi |-> 0, lo |-> 0]]

U32ToNat(x) == x.hi * Limb + x.lo

-----------------------------------------------------------------------------
(* Data model: ScopeLine, ScopeConfig, BoundingBox, and the ScopeData      *)
(* collaborator                                                            *)

ConstantLine(constant) ==
  [kind |-> "Constant", constant |-> constant, samples |-> <<>>, width |-> One]

SignalLine(samples, width) ==
  [kind |-> "Signal", constant |-> Zero, samples |-> samples, width |-> width]

AudioLine(samples) ==
  [kind |-> "Audio", constant |-> Zero, samples |-> samples, width |-> Two]

LineKinds == {"Constant", "Signal", "Audio"}

ScopeConfig(x_divs, y_divs) == [x_divs |-> x_divs, y_divs |-> y_divs]

\* config.unwrap_or(ScopeConfig { x_divs: 10, y_divs: 10 })
DefaultConfig == ScopeConfig(U32(10), U32(10))

None == [some |-> FALSE, val |-> DefaultConfig]

Some(c) == [some |-> TRUE, val |-> c]

UnwrapOr(opt, default) == IF opt.some THEN opt.val ELSE default

BoundingBox(x, y, w, h) ==
  [x |-> FromInt(x), y |-> FromInt(y), w |-> FromInt(w), h |-> FromInt(h)]

\* An implementor of the ScopeData trait, after the example of the crate
\* documentation: a threshold, one sample buffer, and the kinds of the lines
\* it shows, in order.  recalcs counts the calls of recalculate.
ScopeData(threshold, samples, layout) ==
  [threshold |-> threshold, samples |-> samples, layout |-> layout, recalcs |-> 0]

scope_lines(sd) ==
  [i \in 1..Len(sd.layout) |->
     CASE sd.layout[i] = "Constant" -> ConstantLine(sd.threshold)
       [] sd.layout[i] = "Signal" -> SignalLine(sd.samples, Rat(3, 2))
       [] sd.layout[i] = "Audio" -> AudioLine(sd.samples)]

\* recalculate(&mut self): the implementor recomputes its sample buffer.
recalculate(sd, samples) ==
  [sd EXCEPT !.samples = samples, !.recalcs = sd.recalcs + 1]

-----------------------------------------------------------------------------
(* Canvas requests and paths *)

MoveTo(x, y) == [cmd |-> "move_to", x |-> x, y |-> y, w |-> Zero, h |-> Zero]

LineTo(x, y) == [cmd |-> "line_to", x |-> x, y |-> y, w |-> Zero, h |-> Zero]

PathRect(x, y, w, h) == [cmd |-> "rect", x |-> x, y |-> y, w |-> w, h |-> h]

\* canvas.stroke_path(path, paint): by names the drawing method, line the
\* index of the line in scope_lines() (0 for grid and border), scale the
\* intensity of an audio pass.
StrokePath(by, line, scale, path, line_width) ==
  [op |-> "stroke_path", by |-> by, line |-> line, scale |-> scale,
   path |-> path, line_width |-> line_width]

ClearRect(x, y, w, h) ==
  [op |-> "clear_rect", by |-> "draw", line |-> 0, scale |-> One,
   path |-> <<PathRect(FromInt(x), FromInt(y), FromInt(w), FromInt(h))>>,
   line_width |-> Zero]

\* The outcome of a drawing method: whether it returned (ok) or panicked,
\* the requests it issued, and the length of every bucket it reduced.
Returned(canvas, reduced) == [ok |-> TRUE, canvas |-> canvas, reduced |-> reduced]

Panicked(canvas, reduced) == [ok |-> FALSE, canvas |-> canvas, reduced |-> reduced]

\* Two drawing methods in sequence: the second runs only if the first returned.
Then(a, b) ==
  IF a.ok THEN [ok |-> b.ok, canvas |-> a.canvas \o b.canvas, reduced |-> a.reduced \o b.reduced]
  ELSE a

-----------------------------------------------------------------------------
(* Bucket reducer *)

\* Faulty variant of BucketSize: a bucket size of 0 raised to 1.
BucketSizeAtLeastOne(len, w) ==
  IF AsUnsigned(Div(FromInt(len), w)) = 0 THEN 1 ELSE AsUnsigned(Div(FromInt(len), w))

\* (line.samples.len() as f32 / bounds.w) as usize
BucketSize(len, w) == AsUnsigned(Div(FromInt(len), w))

\* slice::chunks(chunk_size) panics when chunk_size is 0.
ChunksPanics(chunk_size) == chunk_size = 0

\* slice::chunks(chunk_size): consecutive chunks of chunk_size elements, the
\* last one shorter when the length is not a multiple.
Chunks(s, chunk_size) ==
  [i \in 1..((Len(s) + chunk_size - 1) \div chunk_size) |->
     SubSeq(s, (i - 1) * chunk_size + 1,
            IF i * chunk_size < Len(s) THEN i * chunk_size ELSE Len(s))]

\* bucket_sum / (bucket.len() as f32); an empty bucket gives 0.0 / 0.0 = NaN,
\* which chunks() never produces.
Average(bucket) == Div(Sum(bucket), FromInt(Len(bucket)))

MinusOne == FromInt(-1)

\* Faulty variant of SignalY: the average is not clamped.
SignalYUnclamped(bounds, average) ==
  Add(Add(bounds.y, Div(Mul(average, bounds.h), Two)), Div(bounds.h, Two))

\* draw_signal: y of a bucket average
SignalY(bounds, average) ==
  Add(Add(bounds.y, Div(Mul(Clamp(average, MinusOne, One), bounds.h), Two)),
      Div(bounds.h, Two))

\* draw_audio: the minimum-thickness bump of a bucket's max
BumpedMax(bounds, min, max) ==
  IF Lt(Sub(max, min), Div(Two, bounds.h)) THEN Add(max, Div(Four, bounds.h)) ELSE max

\* draw_audio: y_loc
y_loc(bounds, scale, y) ==
  Add(Sub(bounds.y, Div(Mul(Mul(scale, Clamp(y, MinusOne, One)), bounds.h), Two)),
      Div(bounds.h, Two))

-----------------------------------------------------------------------------
(* Drawing methods of ScopeView *)

\* Faulty variant of GridXPos: x is divided by x_divs + 1.
GridXPosOffByOne(bounds, x, x_divs) ==
  Add(bounds.x, Mul(Div(FromInt(x), FromInt(U32ToNat(x_divs) + 1)), bounds.w))

\* draw_grid: x_pos of vertical line x (0-based), y_pos of horizontal line y
GridXPos(bounds, x, x_divs) ==
  Add(bounds.x, Mul(Div(FromInt(x), FromInt(U32ToNat(x_divs))), bounds.w))

GridYPos(bounds, y, y_divs) ==
  Add(bounds.y, Mul(Div(FromInt(y), FromInt(U32ToNat(y_divs))), bounds.h))

\* The range 0..divs + 1: the number of its elements.  divs + 1 overflows for
\* divs = u32::MAX; a build that wraps then gets the empty range 0..0.
RangeLen(divs) == IF U32Succ(divs).overflow THEN 0 ELSE U32ToNat(U32Succ(divs).val)

RangePanics(divs, checks) == checks /\ U32Succ(divs).overflow

GridVertical(bounds, x_divs) ==
  [k \in 1..(2 * RangeLen(x_divs)) |->
     IF k % 2 = 1
     THEN MoveTo(GridXPos(bounds, (k - 1) \div 2, x_divs), bounds.y)
     ELSE LineTo(GridXPos(bounds, (k - 1) \div 2, x_divs), Add(bounds.y, bounds.h))]

GridHorizontal(bounds, y_divs) ==
  [k \in 1..(2 * RangeLen(y_divs)) |->
     IF k % 2 = 1
     THEN MoveTo(bounds.x, GridYPos(bounds, (k - 1) \div 2, y_divs))
     ELSE LineTo(Add(bounds.x, bounds.w), GridYPos(bounds, (k - 1) \div 2, y_divs))]

draw_grid(bounds, cfg, checks) ==
  IF RangePanics(cfg.x_divs, checks) \/ RangePanics(cfg.y_divs, checks)
  THEN Panicked(<<>>, <<>>)
  ELSE Returned(<<StrokePath("draw_grid", 0, One,
                             GridVertical(bounds, cfg.x_divs) \o GridHorizontal(bounds, cfg.y_divs),
                             One)>>, <<>>)

draw_horizontal(bounds, line, idx) ==
  LET threshold_y == Div(Mul(line.constant, bounds.h), Two)
      base_y == Add(bounds.y, Div(bounds.h, Two))
  IN Returned(<<StrokePath("draw_horizontal", idx, One,
                           <<MoveTo(bounds.x, Add(base_y, threshold_y)),
                             LineTo(Add(bounds.x, bounds.w), Add(base_y, threshold_y)),
                             MoveTo(bounds.x, Sub(base_y, threshold_y)),
                             LineTo(Add(bounds.x, bounds.w), Sub(base_y, threshold_y))>>,
                           One)>>, <<>>)

draw_signal(bounds, line, idx) ==
  LET bucket_size == BucketSize(Len(line.samples), bounds.w)
  IN IF ChunksPanics(bucket_size) THEN Panicked(<<>>, <<>>)
     ELSE LET chunks == Chunks(line.samples, bucket_size)
              path == <<MoveTo(bounds.x, Add(bounds.y, Div(bounds.h, Two)))>> \o
                      [i \in 1..Len(chunks) |->
                         LineTo(Add(bounds.x, FromInt(i - 1)),
                                SignalY(bounds, Average(chunks[i])))]
          IN Returned(<<StrokePath("draw_signal", idx, One, path, line.width)>>,
                      [i \in 1..Len(chunks) |-> Len(chunks[i])])

\* draw_audio: the test at the end of the loop body, after bucket number i
\* (1-based) was drawn and x advanced: (x - bounds.x) as usize ==
\* chunks_length - 2.  For chunks_length < 2 the usize subtraction overflows:
\* a panic with overflow checks, otherwise a value near 2^64 that no x reaches.
AfterBucket(i, chunks_length, checks) ==
  IF chunks_length >= 2
  THEN (IF i = chunks_length - 2 THEN "break" ELSE "continue")
  ELSE (IF checks THEN "panic" ELSE "continue")

\* The last bucket the loop of draw_wave draws.
LastDrawn(chunks_length, checks) ==
  LET stops == {i \in 1..chunks_length : AfterBucket(i, chunks_length, checks) # "continue"}
  IN IF stops = {} THEN chunks_length ELSE SetMin(stops)

\* extrema.expect(..): None only for an empty bucket
ExpectPanics(bucket) == Len(bucket) = 0

\* draw_audio: the closure draw_wave
draw_wave(bounds, line, idx, scale, checks) ==
  LET bucket_size == BucketSize(Len(line.samples), bounds.w)
  IN IF ChunksPanics(bucket_size) THEN Panicked(<<>>, <<>>)
     ELSE LET chunks == Chunks(line.samples, bucket_size)
              chunks_length == Len(chunks)
              last == LastDrawn(chunks_length, checks)
              min(i) == FoldMin(chunks[i])
              max(i) == BumpedMax(bounds, FoldMin(chunks[i]), FoldMax(chunks[i]))
              x(i) == Add(bounds.x, FromInt(i - 1))
              path == [k \in 1..(2 * last) |->
                         IF k % 2 = 1
                         THEN MoveTo(x((k + 1) \div 2), y_loc(bounds, scale, min((k + 1) \div 2)))
                         ELSE LineTo(x((k + 1) \div 2), y_loc(bounds, scale, max((k + 1) \div 2)))]
              reduced == [i \in 1..last |-> Len(chunks[i])]
          IN IF \E i \in 1..last : ExpectPanics(chunks[i])
             THEN Panicked(<<>>, <<>>)
             ELSE IF last > 0 /\ AfterBucket(last, chunks_length, checks) = "panic"
             THEN Panicked(<<>>, reduced)
             ELSE Returned(<<StrokePath("draw_audio", idx, scale, path, Two)>>, reduced)

draw_audio(bounds, line, idx, checks) ==
  Then(draw_wave(bounds, line, idx, One, checks),
       draw_wave(bounds, line, idx, Half, checks))

draw_border(bounds) ==
  LET width == FromInt(3)
  IN Returned(<<StrokePath("draw_border", 0, One,
                           <<PathRect(Sub(bounds.x, Div(width, Two)),
                                      Sub(bounds.y, Div(width, Two)),
                                      Add(bounds.w, width), Add(bounds.h, width))>>,
                           FromInt(3))>>, <<>>)

\* draw: the match on the variant of one line
draw_line(bounds, line, idx, checks) ==
  CASE line.kind = "Constant" -> draw_horizontal(bounds, line, idx)
    [] line.kind = "Signal" -> draw_signal(bounds, line, idx)
    [] line.kind = "Audio" -> draw_audio(bounds, line, idx, checks)

\* draw: scope_lines().iter().for_each(..), from line number idx on
RECURSIVE draw_lines(_, _, _, _)
draw_lines(bounds, lines, idx, checks) ==
  IF idx > Len(lines) THEN Returned(<<>>, <<>>)
  ELSE Then(draw_line(bounds, lines[idx], idx, checks),
            draw_lines(bounds, lines, idx + 1, checks))

draw_clear(bounds) ==
  Returned(<<ClearRect(AsUnsigned(bounds.x), AsUnsigned(bounds.y),
                       AsUnsigned(bounds.w), AsUnsigned(bounds.h))>>, <<>>)

\* Faulty variant of draw: the border is stroked before the lines.
drawBorderBeforeLines(bounds, sd, cfg, checks) ==
  Then(draw_clear(bounds),
  Then(draw_grid(bounds, cfg, checks),
  Then(draw_border(bounds),
       draw_lines(bounds, scope_lines(sd), 1, checks))))

\* View::draw
draw(bounds, sd, cfg, checks) ==
  Then(draw_clear(bounds),
  Then(draw_grid(bounds, cfg, checks),
  Then(draw_lines(bounds, scope_lines(sd), 1, checks),
       draw_border(bounds))))

-----------------------------------------------------------------------------------------------------------------------------------------------------
(* Inputs *)

\* Sample values: one outside [-1, 1] and one at the clamp limit; their
\* averages fall inside.
Samples == {FromInt(-2), One}

GridSamples == {One}

BuffersOver(S) == UNION {[1..n -> S] : n \in 0..MaxLen}

\* 1000 samples alternating +1.0, -1.0
Alternating == [i \in 1..1000 |-> IF i % 2 = 1 THEN One ELSE MinusOne]

Layouts == UNION {[1..n -> LineKinds] : n \in 0..MaxLines}

GridLayouts == {<<>>, <<"Constant">>, <<"Signal", "Audio">>}

Rect100 == BoundingBox(0, 0, 100, 100)

SmallBounds == {BoundingBox(1, 2, w, 8) : w \in 1..MaxWidth}

Configs == {Some(ScopeConfig(U32(2), U32(1)))}

DivValues == {U32(d) : d \in 1..MaxDivs} \cup {U32Max}

GridConfigs == {None} \cup {Some(ScopeConfig(d, e)) : d, e \in DivValues}

\* The buffers one recalculation can produce from the current one: the same
\* buffer, one sample of S more, one sample less, the empty buffer, or one of
\* the long buffers L.
Recalculated(samples, S, L) ==
  {samples, <<>>} \cup L
  \cup (IF Len(samples) < MaxLen THEN {Append(samples, v) : v \in S} ELSE {})
  \cup (IF Len(samples) \in 1..MaxLen THEN {SubSeq(samples, 1, Len(samples) - 1)} ELSE {})

-----------------------------------------------------------------------------
(* State machine *)

\* frame: what the most recent draw of the current data did (drawn = FALSE
\* when the data has not been drawn since it was last recalculated).
NoFrame ==
  [drawn |-> FALSE, bounds |-> Rect100, ok |-> TRUE, canvas |-> <<>>,
   reduced |-> <<>>, seen |-> 0]

Frame(bounds, result, seen) ==
  [drawn |-> TRUE, bounds |-> bounds, ok |-> result.ok, canvas |-> result.canvas,
   reduced |-> result.reduced, seen |-> seen]

EventKinds == {"ParamUpdate", "Other"}

\* Faulty variant of event: every event recalculates.
eventRecalculatesAlways(ev, sd, samples) == recalculate(sd, samples)

\* View::event: event.map matches ParamUpdateEvent::ParamUpdate only
event(ev, sd, samples) ==
  IF ev = "ParamUpdate" THEN recalculate(sd, samples) ELSE sd

Init ==
  /\ pc = "unbuilt"
  /\ overflow_checks \in BOOLEAN
  /\ config = DefaultConfig
  /\ scope_data = ScopeData(Half, <<>>, <<>>)
  /\ events = 0
  /\ frame = NoFrame

\* ScopeView::new, for a collaborator that shows the lines of a layout of Y
\* and whose first recalculation yields a buffer of B, and a caller that
\* passes a configuration of C
New(B, C, Y) ==
  /\ pc = "unbuilt"
  /\ \E layout \in Y, samples \in B, c \in C :
       /\ config' = UnwrapOr(c, DefaultConfig)
       /\ scope_data' = recalculate(ScopeData(Half, <<>>, layout), samples)
  /\ pc' = "idle"
  /\ UNCHANGED <<overflow_checks, events, frame>>

\* View::event, for a host that sends at most cap ParamUpdate events
Event(S, L, cap) ==
  /\ pc = "idle"
  /\ \E ev \in EventKinds :
       /\ ev = "ParamUpdate" => events < cap
       /\ \E samples \in (IF ev = "ParamUpdate"
                          THEN Recalculated(scope_data.samples, S, L)
                          ELSE {scope_data.samples}) :
            scope_data' = event(ev, scope_data, samples)
       /\ events' = IF ev = "ParamUpdate" THEN events + 1 ELSE events
       /\ frame' = IF ev = "ParamUpdate" THEN NoFrame ELSE frame
  /\ UNCHANGED <<pc, overflow_checks, config>>

\* View::draw, with the bounds the host supplies, one of R
Draw(R) ==
  /\ pc = "idle"
  /\ \E bounds \in R :
       LET result == draw(bounds, scope_data, config, overflow_checks)
       IN /\ frame' = Frame(bounds, result, scope_data.recalcs)
          /\ pc' = IF result.ok THEN "idle" ELSE "aborted"
  /\ UNCHANGED <<overflow_checks, config, scope_data, events>>

\* Every layout over every short buffer, in small rectangles.  New yields any
\* buffer, so one ParamUpdate reaches every change of buffer.
Next ==
  \/ New(BuffersOver(Samples), Configs, Layouts)
  \/ Event(Samples, {}, 1)
  \/ Draw(SmallBounds)

Spec == Init /\ [][Next]_vars

\* Every grid configuration and sequences of MaxEvents events, over few
\* layouts and buffers.
NextGrid ==
  \/ New(BuffersOver(GridSamples), GridConfigs, GridLayouts)
  \/ Event(GridSamples, {}, MaxEvents)
  \/ Draw(SmallBounds)

SpecGrid == Init /\ [][NextGrid]_vars

\* The 1000-sample buffer in the 100 x 100 rectangle
NextScenario ==
  \/ New({Alternating}, {None}, Layouts)
  \/ Event({}, {Alternating}, MaxEvents)
  \/ Draw({Rect100})

SpecScenario == Init /\ [][NextScenario]_vars

-----
(* Vocabulary of the properties *)

Lines == scope_lines(scope_data)

Buffer == scope_data.samples

HasSampleLine == \E i \in DOMAIN Lines : Lines[i].kind \in {"Signal", "Audio"}

StrokesBy(by) == {i \in DOMAIN frame.canvas : frame.canvas[i].by = by}

Tags(canvas) == [i \in DOMAIN canvas |-> <<canvas[i].op, canvas[i].by, canvas[i].line>>]

\* The requests of line number idx, by its variant (an Audio line is stroked
\* once per pass).
TagsOfLine(line, idx) ==
  CASE line.kind = "Constant" -> <<<<"stroke_path", "draw_horizontal", idx>>>>
    [] line.kind = "Signal" -> <<<<"stroke_path", "draw_signal", idx>>>>
    [] line.kind = "Audio" -> <<<<"stroke_path", "draw_audio", idx>>,
                                <<"stroke_path", "draw_audio", idx>>>>

RECURSIVE TagsOfLines(_, _)
TagsOfLines(lines, idx) ==
  IF idx > Len(lines) THEN <<>>
  ELSE TagsOfLine(lines[idx], idx) \o TagsOfLines(lines, idx + 1)

\* clear, grid, the lines in order, border
FixedOrder(lines) ==
  <<<<"clear_rect", "draw", 0>>, <<"stroke_path", "draw_grid", 0>>>>
  \o TagsOfLines(lines, 1)
  \o <<<<"stroke_path", "draw_border", 0>>>>

IsPrefix(s, t) == Len(s) <= Len(t) /\ s = SubSeq(t, 1, Len(s))

\* The buckets of the buffer for the rectangle of the frame
FrameBucketSize == BucketSize(Len(Buffer), frame.bounds.w)

FrameChunks == Chunks(Buffer, FrameBucketSize)

\* Segment k of a path of move_to / line_to pairs
SegFrom(path, k) == path[2 * k - 1]

SegTo(path, k) == path[2 * k]

NumSegs(path) == Len(path) \div 2

AbsDiff(a, b) == IF Lt(a, b) THEN Sub(b, a) ELSE Sub(a, b)

Top == frame.bounds.y

Bottom == Add(frame.bounds.y, frame.bounds.h)

Left == frame.bounds.x

Right == Add(frame.bounds.x, frame.bounds.w)

Centre == Add(frame.bounds.y, Div(frame.bounds.h, Two))

\* y = rect.y + rect.height/2 - scale * v * rect.height/2
MapY(scale, v) == Sub(Centre, Div(Mul(Mul(scale, v), frame.bounds.h), Two))

InUnit(v) == Le(MinusOne, v) /\ Le(v, One)

-----------------------------------------------------------------------------
(* C1 *)

\* C1 as stated: every draw issues clear, grid, the strokes of each line of
\* scope_lines() in order and by its variant, and border last, skipping none.
C1_FixedOrderEveryDraw ==
  frame.drawn => Tags(frame.canvas) = FixedOrder(Lines)

\* C1 amended: the requests of every draw are a prefix of the fixed order
\* clear, grid, line strokes in order, border; the order is complete exactly
\* when the draw returns, and a draw that panics stops short of the border.
C1_FixedOrderPrefix ==
  frame.drawn =>
    /\ IsPrefix(Tags(frame.canvas), FixedOrder(Lines))
    /\ frame.ok <=> Tags(frame.canvas) = FixedOrder(Lines)

C1_Witness ==
  /\ frame.drawn /\ frame.ok
  /\ scope_data.layout = <<"Audio", "Constant">>
  /\ Len(frame.canvas) = 6

-----------------------------------------------------------------------------
(* C2 *)

\* C2: recalculate is called once by new and once per ParamUpdate handled,
\* never by draw or by another event: the number of its calls is 0 before
\* construction and 1 + the number of ParamUpdate events after, and every
\* draw sees data recalculated for every event handled before it.
C2_RecalculateCount ==
  /\ pc = "unbuilt" => scope_data.recalcs = 0
  /\ pc # "unbuilt" => scope_data.recalcs = 1 + events
  /\ frame.drawn => frame.seen = 1 + events

C2_Witness == frame.drawn /\ events = 2 /\ frame.seen = 3

-----------------------------------------------------------------------------
(* C3 *)

\* C3: for the 100 x 100 rectangle at the origin and 1000 samples alternating
\* +1, -1, the scale 1.0 pass of draw_audio uses bucket size 10, every bucket
\* reduces to (-1, 1), and the pass emits exactly 100 segments, one at each
\* x = 0..99, each between y = 0 and y = 100.
C3_HundredSegments ==
  (frame.drawn /\ frame.bounds = Rect100 /\ Buffer = Alternating) =>
    /\ FrameBucketSize = 10
    /\ \A i \in DOMAIN FrameChunks :
         FoldMin(FrameChunks[i]) = MinusOne /\ FoldMax(FrameChunks[i]) = One
    /\ \A r \in StrokesBy("draw_audio") :
         frame.canvas[r].scale = One =>
           LET path == frame.canvas[r].path
           IN /\ NumSegs(path) = 100
              /\ \A k \in 1..100 :
                   /\ SegFrom(path, k).x = FromInt(k - 1)
                   /\ SegTo(path, k).x = FromInt(k - 1)
                   /\ {SegFrom(path, k).y, SegTo(path, k).y} = {Zero, FromInt(100)}

-----------------------------------------------------------------------------
(* C4 *)

\* C4: for N >= W the reducer uses at most W pixel positions: draw_signal
\* emits at most W bucket points, draw_audio at most W segments per pass,
\* bucket i sits at x = rect.x + i, and rect.x <= x < rect.x + W.
C4_AtMostWidthPositions ==
  (frame.drawn /\ Len(Buffer) >= AsUnsigned(frame.bounds.w)) =>
    /\ \A r \in StrokesBy("draw_signal") :
         LET path == frame.canvas[r].path
         IN /\ Len(path) - 1 <= AsUnsigned(frame.bounds.w)
            /\ \A i \in 2..Len(path) :
                 /\ path[i].x = Add(Left, FromInt(i - 2))
                 /\ Le(Left, path[i].x) /\ Lt(path[i].x, Right)
    /\ \A r \in StrokesBy("draw_audio") :
         LET path == frame.canvas[r].path
         IN /\ NumSegs(path) <= AsUnsigned(frame.bounds.w)
            /\ \A k \in 1..NumSegs(path) :
                 /\ SegFrom(path, k).x = Add(Left, FromInt(k - 1))
                 /\ Le(Left, SegFrom(path, k).x) /\ Lt(SegFrom(path, k).x, Right)

-----------------------------------------------------------------------------
(* C5 *)

\* C5: every bucket drawn by draw_audio with samples in [-1, 1] and
\* max - min < 2/rect.height gives a segment that is not of zero height and
\* is at least as high as an amplitude span of 4/rect.height in that pass.
C5_MinimumThickness ==
  frame.drawn =>
    \A r \in StrokesBy("draw_audio") :
      LET path == frame.canvas[r].path
          scale == frame.canvas[r].scale
      IN \A k \in 1..NumSegs(path) :
           LET lo == FoldMin(FrameChunks[k])
               hi == FoldMax(FrameChunks[k])
               height == AbsDiff(SegFrom(path, k).y, SegTo(path, k).y)
           IN (InUnit(lo) /\ InUnit(hi) /\ Lt(Sub(hi, lo), Div(Two, frame.bounds.h))) =>
                /\ Lt(Zero, height)
                /\ Le(Div(Mul(Mul(scale, Div(Four, frame.bounds.h)), frame.bounds.h), Two),
                      height)

-----------------------------------------------------------------------------
(* C6 *)

\* The segments of the grid path: the vertical ones (same x at both ends) and
\* the horizontal ones (same y at both ends), in path order.
GridSegs(path) == [k \in 1..NumSegs(path) |-> <<SegFrom(path, k), SegTo(path, k)>>]

IsVertical(seg) == seg[1].x = seg[2].x

IsHorizontal(seg) == seg[1].y = seg[2].y

\* n lines for divs divisions: n = divs + 1, stated without leaving u32
CountIs(n, divs) == n >= 1 /\ U32(n - 1) = divs

GridAsClaimed(path) ==
  LET V == SelectSeq(GridSegs(path), IsVertical)
      H == SelectSeq(GridSegs(path), IsHorizontal)
  IN /\ CountIs(Len(V), config.x_divs)
     /\ CountIs(Len(H), config.y_divs)
     /\ V[1][1].x = Left /\ V[Len(V)][1].x = Right
     /\ \A k \in 1..Len(V) : V[k][1].y = Top /\ V[k][2].y = Bottom
     /\ \A k \in 1..(Len(V) - 1) :
          Sub(V[k + 1][1].x, V[k][1].x) = Div(frame.bounds.w, FromInt(Len(V) - 1))
     /\ H[1][1].y = Top /\ H[Len(H)][1].y = Bottom
     /\ \A k \in 1..Len(H) : H[k][1].x = Left /\ H[k][2].x = Right
     /\ \A k \in 1..(Len(H) - 1) :
          Sub(H[k + 1][1].y, H[k][1].y) = Div(frame.bounds.h, FromInt(Len(H) - 1))

-----------------------------------------------------------------------------
(* C7 *)

\* C7: every y drawn from samples is rect.y + rect.height/2 -
\* scale * v * rect.height/2 for the clamped amplitude v: the average of a
\* Signal bucket with scale 1, the min and the (raised) max of an Audio
\* bucket with the scale of the pass; positive amplitudes lie above the centre.
C7_VerticalMapping ==
  frame.drawn =>
    /\ \A r \in StrokesBy("draw_signal") :
         LET path == frame.canvas[r].path
         IN \A i \in 2..Len(path) :
              LET v == Clamp(Average(FrameChunks[i - 1]), MinusOne, One)
              IN /\ path[i].y = MapY(One, v)
                 /\ Lt(Zero, v) => Lt(path[i].y, Centre)
    /\ \A r \in StrokesBy("draw_audio") :
         LET path == frame.canvas[r].path
             scale == frame.canvas[r].scale
         IN \A k \in 1..NumSegs(path) :
              LET lo == FoldMin(FrameChunks[k])
                  hi == BumpedMax(frame.bounds, lo, FoldMax(FrameChunks[k]))
              IN /\ SegFrom(path, k).y = MapY(scale, Clamp(lo, MinusOne, One))
                 /\ SegTo(path, k).y = MapY(scale, Clamp(hi, MinusOne, One))

-----------------------------------------------------------------------------
(* C8 *)

\* C8: a draw of a Signal or Audio line with an empty buffer panics before
\* any bucket is reduced and before any path of such a line is stroked; in a
\* draw that returns, every bucket reduced holds at least one sample.
C8_EmptyBufferFailsFast ==
  frame.drawn =>
    /\ (Len(Buffer) = 0 /\ HasSampleLine) =>
         /\ ~frame.ok
         /\ frame.reduced = <<>>
         /\ StrokesBy("draw_signal") = {} /\ StrokesBy("draw_audio") = {}
    /\ frame.ok => \A i \in DOMAIN frame.reduced : frame.reduced[i] >= 1

C8_Witness ==
  /\ frame.drawn /\ ~frame.ok
  /\ Len(Buffer) = 0
  /\ scope_data.layout = <<"Constant", "Signal">>
  /\ Len(frame.canvas) = 3

-----------------------------------------------------------------------------
(* C9 *)

\* C9: with 0 < N < W samples draw_signal and draw_audio return without
\* panicking, and every bucket they reduce is a single sample.
C9_FewerSamplesThanPixels ==
  (/\ frame.drawn
   /\ 0 < Len(Buffer) /\ Len(Buffer) < AsUnsigned(frame.bounds.w)
   /\ HasSampleLine) =>
    /\ frame.ok
    /\ \A i \in DOMAIN frame.reduced : frame.reduced[i] = 1

-----------------------------------------------------------------------------
(* C10 *)

\* C10: for any sample values every y of a Signal bucket point and of an
\* Audio segment end lies in rect.y .. rect.y + rect.height, and is the y
\* that the clamped value maps to.
C10_ClampedInsideRect ==
  frame.drawn =>
    /\ \A r \in StrokesBy("draw_signal") :
         LET path == frame.canvas[r].path
         IN \A i \in 2..Len(path) :
              /\ Le(Top, path[i].y) /\ Le(path[i].y, Bottom)
              /\ path[i].y =
                   SignalY(frame.bounds, Clamp(Average(FrameChunks[i - 1]), MinusOne, One))
    /\ \A r \in StrokesBy("draw_audio") :
         LET path == frame.canvas[r].path
             scale == frame.canvas[r].scale
         IN \A k \in 1..NumSegs(path) :
              LET lo == FoldMin(FrameChunks[k])
                  hi == BumpedMax(frame.bounds, lo, FoldMax(FrameChunks[k]))
              IN /\ Le(Top, SegFrom(path, k).y) /\ Le(SegFrom(path, k).y, Bottom)
                 /\ Le(Top, SegTo(path, k).y) /\ Le(SegTo(path, k).y, Bottom)
                 /\ SegFrom(path, k).y = y_loc(frame.bounds, scale, Clamp(lo, MinusOne, One))
                 /\ SegTo(path, k).y = y_loc(frame.bounds, scale, Clamp(hi, MinusOne, One))

C10_Witness ==
  /\ frame.drawn /\ frame.ok
  /\ scope_data.layout = <<"Signal", "Audio">>
  /\ Buffer = <<FromInt(-2), FromInt(-2)>>
  /\ frame.bounds.w = FromInt(2)

====
